---------------------------- MODULE Spec2Model ----------------------------
(***************************************************************************)
(* A model of the JWS signing / verification library.                      *)
(*                                                                         *)
(*   src/unnamed/part_000  package jws: Sign, SignMulti, Verify, Parse,     *)
(*                         parseJSON, SplitCompact, parseCompact           *)
(*   src/jws/signer.go     MultiSign.MultiSign, RsaSign, EcdsaSign,         *)
(*                         HmacSign                                        *)
(*   src/jws/signer_test.go (second half) CompactSerialize.Serialize        *)
(*                                                                         *)
(* Byte strings are sequences of 0..255; text is its ASCII codes.  The     *)
(* library keeps no state between calls, so the state of the model is the  *)
(* last call: its inputs (call), what it handed to the signing primitive   *)
(* (fed) and what it returned (result).                                    *)
(***************************************************************************)
EXTENDS Integers, Sequences, FiniteSets, TLC

VARIABLES call, fed, result

vars == <<call, fed, result>>

(***************************************************************************)
(* Bytes and text                                                          *)
(***************************************************************************)
Dot == 46
LBrace == 123

Pow2(k) == 2 ^ k

Min(S) == CHOOSE x \in S : \A y \in S : x <= y

\* bytes.IndexByte, 0-based; -1 when c does not occur in s
IndexByte(s, c) ==
    LET hits == {k \in 1..Len(s) : s[k] = c}
    IN  IF hits = {} THEN -1 ELSE Min(hits) - 1

CountByte(s, c) == Cardinality({k \in 1..Len(s) : s[k] = c})

\* unicode.IsSpace on the ASCII range: \t \n \v \f \r and space
IsSpace(c) == c \in {9, 10, 11, 12, 13, 32}

\* bytes.TrimSpace
TrimSpace(s) ==
    LET keep == {k \in 1..Len(s) : ~IsSpace(s[k])}
    IN  IF keep = {} THEN <<>>
        ELSE SubSeq(s, Min(keep),
                    CHOOSE x \in keep : \A y \in (x + 1)..Len(s) : IsSpace(s[y]))

Zeros(n) == [k \in 1..n |-> 0]

(***************************************************************************)
(* encoding/base64: RawURLEncoding (no padding) and StdEncoding (padded,   *)
(* what encoding/json uses for a []byte field)                             *)
(***************************************************************************)
\* the character of a 6-bit value; the two alphabets differ in 62 and 63
B64Char(v, url) ==
    IF v < 26 THEN 65 + v
    ELSE IF v < 52 THEN 97 + (v - 26)
    ELSE IF v < 62 THEN 48 + (v - 52)
    ELSE IF v = 62 THEN (IF url THEN 45 ELSE 43)
    ELSE (IF url THEN 95 ELSE 47)

\* the 6-bit value of a character, -1 when it is not in the alphabet
B64Val(c, url) ==
    IF c >= 65 /\ c <= 90 THEN c - 65
    ELSE IF c >= 97 /\ c <= 122 THEN c - 97 + 26
    ELSE IF c >= 48 /\ c <= 57 THEN c - 48 + 52
    ELSE IF c = (IF url THEN 45 ELSE 43) THEN 62
    ELSE IF c = (IF url THEN 95 ELSE 47) THEN 63
    ELSE -1

\* Encoding.Encode without padding
RawEncode(b, url) ==
    LET n == Len(b)
        m == (n * 8 + 5) \div 6
    IN  [j \in 1..m |->
            LET o == 6 * (j - 1)
                q == o \div 8
                r == o % 8
                w == b[q + 1] * 256 + (IF q + 2 <= n THEN b[q + 2] ELSE 0)
            IN  B64Char((w \div Pow2(10 - r)) % 64, url)]

\* the bytes of a run of alphabet characters (trailing bits are dropped)
RawBits(t, url) ==
    LET m == Len(t)
        n == (m * 6) \div 8
    IN  [i \in 1..n |->
            LET o == 8 * (i - 1)
                q == o \div 6
                r == o % 6
                w == B64Val(t[q + 1], url) * 64 + B64Val(t[q + 2], url)
            IN  (w \div Pow2(4 - r)) % 256]

\* the decoder skips \r and \n wherever they are
StripNewlines(s) ==
    LET keep == {k \in 1..Len(s) : s[k] \notin {10, 13}}
        F[k \in 0..Len(s)] ==
            IF k = 0 THEN <<>>
            ELSE IF k \in keep THEN Append(F[k - 1], s[k]) ELSE F[k - 1]
    IN  IF Cardinality(keep) = Len(s) THEN s ELSE F[Len(s)]

AllInAlphabet(t, url) == \A k \in 1..Len(t) : B64Val(t[k], url) >= 0

\* base64.RawURLEncoding
B64UrlEncode(b) == RawEncode(b, TRUE)

B64UrlValid(s) ==
    LET t == StripNewlines(s)
    IN  AllInAlphabet(t, TRUE) /\ Len(t) % 4 # 1

B64UrlDecode(s) == RawBits(StripNewlines(s), TRUE)

\* base64.RawURLEncoding.DecodedLen
RawDecodedLen(n) == (n * 6) \div 8

\* make([]byte, DecodedLen(len(s))) filled by Decode, the count Decode
\* returns ignored: what was not written stays zero
DecodeIntoBuf(s) ==
    LET d == B64UrlDecode(s)
    IN  d \o Zeros(RawDecodedLen(Len(s)) - Len(d))

\* base64.StdEncoding
B64StdEncode(b) ==
    RawEncode(b, FALSE) \o [k \in 1..((3 - (Len(b) % 3)) % 3) |-> 61]

StdBody(s) ==
    LET t == StripNewlines(s)
        n == Len(t)
        pad == IF n >= 1 /\ t[n] = 61
               THEN (IF n >= 2 /\ t[n - 1] = 61 THEN 2 ELSE 1)
               ELSE 0
    IN  [body |-> SubSeq(t, 1, n - pad), pad |-> pad, n |-> n]

B64StdValid(s) ==
    LET p == StdBody(s)
    IN  /\ p.n % 4 = 0
        /\ AllInAlphabet(p.body, FALSE)
        /\ p.pad = 0 \/ Len(p.body) % 4 = 4 - p.pad

B64StdDecode(s) == RawBits(StdBody(s).body, FALSE)

(***************************************************************************)
(* Algorithms, keys and the signing primitives behind sign.New and         *)
(* verify.New (package jws/sign and jws/verify).  A key is a key type and  *)
(* an identity.  A signature has the size the algorithm gives it and is a  *)
(* digest of (alg, key, input): the algorithm, the key, the length of the  *)
(* input and a checksum of its bytes by position; it is accepted for the   *)
(* algorithm, key and input whose digest it is.                            *)
(***************************************************************************)
AlgName(alg) ==
    CASE alg = "HS256" -> <<72, 83, 50, 53, 54>>
      [] alg = "HS384" -> <<72, 83, 51, 56, 52>>
      [] alg = "HS512" -> <<72, 83, 53, 49, 50>>
      [] alg = "RS256" -> <<82, 83, 50, 53, 54>>
      [] alg = "RS384" -> <<82, 83, 51, 56, 52>>
      [] alg = "RS512" -> <<82, 83, 53, 49, 50>>
      [] alg = "PS256" -> <<80, 83, 50, 53, 54>>
      [] alg = "PS384" -> <<80, 83, 51, 56, 52>>
      [] alg = "PS512" -> <<80, 83, 53, 49, 50>>
      [] alg = "ES256" -> <<69, 83, 50, 53, 54>>
      [] alg = "ES384" -> <<69, 83, 51, 56, 52>>
      [] alg = "ES512" -> <<69, 83, 53, 49, 50>>
      [] alg = "none" -> <<110, 111, 110, 101>>
      [] alg = "FooBar" -> <<70, 111, 111, 66, 97, 114>>
      [] alg = "" -> <<>>

\* the key type an algorithm works with, "" for one no signer exists for
AlgKeyType(alg) ==
    CASE alg \in {"HS256", "HS384", "HS512"} -> "oct"
      [] alg \in {"RS256", "RS384", "RS512", "PS256", "PS384", "PS512"} -> "RSA"
      [] alg \in {"ES256", "ES384", "ES512"} -> "EC"
      [] OTHER -> ""

\* sign.New / verify.New: an error for an algorithm of no family
SignerNew(alg) == AlgKeyType(alg) # ""

KeyFits(alg, key) == AlgKeyType(alg) # "" /\ key.kty = AlgKeyType(alg)

\* a checksum of b[lo..hi] that depends on where each byte stands
RECURSIVE Checksum(_, _, _)
Checksum(b, lo, hi) ==
    IF lo > hi THEN 0
    ELSE IF lo = hi THEN (lo * (b[lo] + 1)) % 65521
    ELSE (Checksum(b, lo, (lo + hi) \div 2)
          + Checksum(b, (lo + hi) \div 2 + 1, hi)) % 65521

\* the bytes of a signature: the digest for HMAC, a 2048-bit modulus for
\* RSA, twice the curve's bytes for ECDSA
TagSize(alg) ==
    CASE alg = "HS256" -> 32
      [] alg = "HS384" -> 48
      [] alg = "HS512" -> 64
      [] AlgKeyType(alg) = "RSA" -> 256
      [] alg = "ES256" -> 64
      [] alg = "ES384" -> 96
      [] alg = "ES512" -> 132
      [] OTHER -> 0

TagOf(alg, key, n, sum) ==
    <<AlgName(alg)[1], AlgName(alg)[3], key.id, n \div 256, n % 256,
      sum \div 256, sum % 256>> \o [k \in 1..(TagSize(alg) - 7) |-> 255]

Tag(alg, key, input) ==
    TagOf(alg, key, Len(input), Checksum(input, 1, Len(input)))

\* Signer.Sign(input, key): the signature, or an error for a key of the
\* wrong type
SignerSign(alg, key, input) ==
    IF KeyFits(alg, key)
    THEN [err |-> "nil", sig |-> Tag(alg, key, input)]
    ELSE [err |-> "invalid key type", sig |-> <<>>]

\* Verifier.Verify(input, signature, key) = nil
VerifierVerify(alg, key, input, sig) ==
    KeyFits(alg, key) /\ sig = Tag(alg, key, input)

(***************************************************************************)
(* Headers.  json.Marshal of a header that carries alg and, when set, kid  *)
(***************************************************************************)
HeaderJSON(alg, kid) ==
    <<123, 34, 97, 108, 103, 34, 58, 34>> \o AlgName(alg)
    \o (IF kid = <<>> THEN <<>>
        ELSE <<34, 44, 34, 107, 105, 100, 34, 58, 34>> \o kid)
    \o <<34, 125>>

(***************************************************************************)
(* Sign: compact serialization of one signature                            *)
(***************************************************************************)
\* part_000:375-391, what Sign hands to signer.Sign
SignSigningInput(payload, alg) ==
    B64UrlEncode(HeaderJSON(alg, <<>>)) \o <<Dot>> \o B64UrlEncode(payload)

\* part_000:393-407, with buf the signing input and s what signer.Sign
\* returned
SignFinish(buf, s) ==
    IF s.err # "nil"
    THEN [err |-> "failed to sign payload", out |-> <<>>, fed |-> <<buf>>]
    ELSE [err |-> "nil", out |-> buf \o <<Dot>> \o B64UrlEncode(s.sig),
          fed |-> <<buf>>]

SignWith(buf, alg, key) == SignFinish(buf, SignerSign(alg, key, buf))

Sign(payload, alg, key) ==
    IF ~SignerNew(alg)
    THEN [err |-> "failed to create signer", out |-> <<>>, fed |-> <<>>]
    ELSE SignWith(SignSigningInput(payload, alg), alg, key)

(***************************************************************************)
(* SplitCompact.  The reader is what it returns: the sequence of chunks    *)
(* its successive Read calls deliver before EOF.                           *)
(***************************************************************************)
ReadBufSize == 4096

\* bytes.Reader, strings.Reader: each Read copies as much as fits in buf
RECURSIVE WholeReader(_)
WholeReader(data) ==
    IF Len(data) = 0 THEN <<>>
    ELSE IF Len(data) <= ReadBufSize THEN <<data>>
    ELSE <<SubSeq(data, 1, ReadBufSize)>>
         \o WholeReader(SubSeq(data, ReadBufSize + 1, Len(data)))

\* one turn of the inner loop (part_000:761-784): the segment is
\* sofar[:i], found tells whether a '.' ended it
SplitTurn(st, i, found) ==
    [protected |-> IF st.state = 0 THEN SubSeq(st.sofar, 1, i) ELSE st.protected,
     payload |-> IF st.state = 1 THEN SubSeq(st.sofar, 1, i) ELSE st.payload,
     signature |-> IF st.state = 2 THEN SubSeq(st.sofar, 1, i) ELSE st.signature,
     periods |-> IF found THEN st.periods + 1 ELSE st.periods,
     state |-> IF st.state < 2 THEN st.state + 1 ELSE st.state,
     sofar |-> IF Len(st.sofar) <= i THEN <<>>
               ELSE SubSeq(st.sofar, i + 2, Len(st.sofar))]

\* the inner loop (part_000:747-785) on the bytes read so far, i the
\* result of bytes.IndexByte(sofar, '.')
RECURSIVE SplitLoop(_)
SplitAt(st, i) ==
    IF i = -1
    THEN (IF Len(st.sofar) <= 0 THEN st
          ELSE SplitLoop(SplitTurn(st, Len(st.sofar), FALSE)))
    ELSE SplitLoop(SplitTurn(st, i, TRUE))

SplitLoop(st) == SplitAt(st, IndexByte(st.sofar, Dot))

\* the outer loop (part_000:740-746): one Read, appended to sofar
RECURSIVE SplitReads(_, _)
SplitReads(st, chunks) ==
    IF chunks = <<>> THEN st
    ELSE SplitReads(SplitLoop([st EXCEPT !.sofar = st.sofar \o Head(chunks)]),
                    Tail(chunks))

SplitResult(st) ==
    IF st.periods # 2
    THEN [err |-> "invalid number of segments", protected |-> <<>>,
          payload |-> <<>>, signature |-> <<>>]
    ELSE [err |-> "nil", protected |-> st.protected,
          payload |-> st.payload, signature |-> st.signature]

SplitCompact(chunks) ==
    SplitResult(SplitReads([protected |-> <<>>, payload |-> <<>>,
                            signature |-> <<>>, periods |-> 0, state |-> 0,
                            sofar |-> <<>>], chunks))

(***************************************************************************)
(* JSON.  A JSON serialization is held as the object it spells: which      *)
(* members it has and the text of each string.  encoding/json reads a      *)
(* string into a []byte field, and writes one, as padded standard base64.  *)
(***************************************************************************)
Absent == [has |-> FALSE, str |-> TRUE, s |-> <<>>]

Str(s) == [has |-> TRUE, str |-> TRUE, s |-> s]

\* a member whose value is a JSON object, as an unprotected header is
Obj == [has |-> TRUE, str |-> FALSE, s |-> <<>>]

NoSignatures == [has |-> FALSE, list |-> <<>>]

\* a member that json.Unmarshal cannot store in a []byte field
BadBytesMember(m) == m.has /\ (~m.str \/ ~B64StdValid(m.s))

BytesOf(m) == IF m.has /\ m.str /\ B64StdValid(m.s) THEN B64StdDecode(m.s) ELSE <<>>

BadEntry(e) ==
    BadBytesMember(e.protected) \/ BadBytesMember(e.header)
        \/ BadBytesMember(e.signature)

EncodedSignatureOf(e) ==
    [Protected |-> BytesOf(e.protected), Headers |-> BytesOf(e.header),
     Signature |-> BytesOf(e.signature)]

\* json.Unmarshal(buf, &v) for v FullEncodedMessage (part_000:475-489,
\* 517-520): an embedded pointer is allocated when a member of its struct
\* is present
UnmarshalFull(doc) ==
    [err |-> \/ BadBytesMember(doc.payload)
             \/ BadEntry(doc)
             \/ \E k \in 1..Len(doc.signatures.list) :
                    BadEntry(doc.signatures.list[k]),
     hasMessage |-> doc.payload.has \/ doc.signatures.has,
     hasSignature |-> doc.protected.has \/ doc.header.has \/ doc.signature.has,
     Payload |-> BytesOf(doc.payload),
     Signatures |-> [k \in 1..Len(doc.signatures.list) |->
                        EncodedSignatureOf(doc.signatures.list[k])],
     Flat |-> EncodedSignatureOf(doc)]

(***************************************************************************)
(* Verify                                                                  *)
(***************************************************************************)
Failed(e) == [err |-> e, ret |-> <<>>, retNil |-> TRUE]

Returned(b) == [err |-> "nil", ret |-> b, retNil |-> FALSE]

\* the loop over msg.Signatures (part_000:535-560), from entry k on
RECURSIVE VerifyEntries(_, _, _, _, _)
VerifyEntries(sigs, k, payload, alg, key) ==
    IF k > Len(sigs) THEN Failed("could not verify with any of the signatures")
    ELSE IF ~B64UrlValid(sigs[k].Signature)
    THEN VerifyEntries(sigs, k + 1, payload, alg, key)
    ELSE IF VerifierVerify(alg, key, sigs[k].Protected \o <<Dot>> \o payload,
                           DecodeIntoBuf(sigs[k].Signature))
    THEN (IF B64UrlValid(payload)
          THEN Returned(DecodeIntoBuf(payload))
          ELSE Failed("message verified, failed to decode payload"))
    ELSE VerifyEntries(sigs, k + 1, payload, alg, key)

\* JSON mode after json.Unmarshal stored v (part_000:522-561)
VerifyUnmarshalled(v, alg, key) ==
    IF v.err THEN Failed("failed to unmarshal JWS message")
    \* errors.Wrap of the nil err of verify.New is nil
    ELSE IF ~v.hasMessage THEN [err |-> "nil", ret |-> <<>>, retNil |-> TRUE]
    \* msg.Signatures[0] = v.EncodedSignature
    ELSE IF v.hasSignature /\ Len(v.Signatures) = 0
    THEN Failed("panic: index out of range")
    ELSE IF v.hasSignature
    THEN VerifyEntries([v.Signatures EXCEPT ![1] = v.Flat], 1, v.Payload,
                       alg, key)
    ELSE VerifyEntries(v.Signatures, 1, v.Payload, alg, key)

\* JSON mode (part_000:512-561)
VerifyJSON(doc, alg, key) == VerifyUnmarshalled(UnmarshalFull(doc), alg, key)

\* compact mode after SplitCompact returned sp (part_000:564-591)
VerifySplit(sp, alg, key) ==
    IF sp.err # "nil"
    THEN Failed("failed extract from compact serialization format")
    ELSE IF ~B64UrlValid(sp.signature)
    THEN Failed("failed to decode signature")
    ELSE IF ~VerifierVerify(alg, key, sp.protected \o <<Dot>> \o sp.payload,
                            DecodeIntoBuf(sp.signature))
    THEN Failed("failed to verify message")
    ELSE IF ~B64UrlValid(sp.payload)
    THEN Failed("message verified, failed to decode payload")
    ELSE Returned(DecodeIntoBuf(sp.payload))

\* compact mode (part_000:563-591)
VerifyCompact(buf, alg, key) ==
    VerifySplit(SplitCompact(WholeReader(buf)), alg, key)

\* the buffer trimmed (part_000:507-515, 563)
VerifyTrimmed(b, alg, key) ==
    IF Len(b) = 0 THEN Failed("empty buffer")
    ELSE IF b[1] = LBrace THEN Failed("failed to unmarshal JWS message")
    ELSE VerifyCompact(b, alg, key)

\* buf is either the bytes of a serialization, or a JSON object: bytes that
\* spell it, possibly between white space
Verify(buf, alg, key) ==
    IF ~SignerNew(alg) THEN Failed("failed to create verifier")
    ELSE IF buf.json THEN VerifyJSON(buf.doc, alg, key)
    ELSE VerifyTrimmed(TrimSpace(buf.bytes), alg, key)

(***************************************************************************)
(* SignMulti: JSON serialization of one signature per signer               *)
(***************************************************************************)
\* part_000:450-457, what SignMulti hands to a signer
SignMultiSigningInput(payload, alg) ==
    B64UrlEncode(HeaderJSON(alg, <<>>)) \o <<Dot>> \o B64UrlEncode(payload)

\* the loop over the signers (part_000:441-470), from signer k on; acc is
\* result.Signatures and given is what the signers were handed so far
RECURSIVE SignMultiLoop(_, _, _, _, _)
SignMultiStep(payload, signers, k, acc, given, buf, s) ==
    IF s.err # "nil"
    THEN [err |-> "failed to sign payload", sigs |-> <<>>,
          fed |-> Append(given, buf)]
    ELSE SignMultiLoop(payload, signers, k + 1,
            Append(acc,
               [Protected |-> B64UrlEncode(HeaderJSON(signers[k].alg, <<>>)),
                Signature |-> B64UrlEncode(s.sig)]),
            Append(given, buf))

SignMultiSignWith(payload, signers, k, acc, given, buf) ==
    SignMultiStep(payload, signers, k, acc, given, buf,
                  SignerSign(signers[k].alg, signers[k].key, buf))

SignMultiLoop(payload, signers, k, acc, given) ==
    IF k > Len(signers) THEN [err |-> "nil", sigs |-> acc, fed |-> given]
    ELSE SignMultiSignWith(payload, signers, k, acc, given,
            SignMultiSigningInput(payload, signers[k].alg))

\* json.Marshal(result) (part_000:426-433, 472)
MarshalResult(encodedPayload, sigs) ==
    [payload |-> Str(B64StdEncode(encodedPayload)),
     signatures |->
        [has |-> TRUE,
         list |-> [k \in 1..Len(sigs) |->
                    [protected |-> Str(B64StdEncode(sigs[k].Protected)),
                     header |-> Absent,
                     signature |-> Str(B64StdEncode(sigs[k].Signature))]]],
     protected |-> Absent, header |-> Absent, signature |-> Absent]

EmptyDoc ==
    [payload |-> Absent, signatures |-> NoSignatures, protected |-> Absent,
     header |-> Absent, signature |-> Absent]

SignMultiResult(payload, r) ==
    IF r.err # "nil"
    THEN [err |-> r.err, doc |-> EmptyDoc, fed |-> r.fed]
    ELSE [err |-> "nil", doc |-> MarshalResult(B64UrlEncode(payload), r.sigs),
          fed |-> r.fed]

SignMulti(payload, signers) ==
    IF Len(signers) = 0
    THEN [err |-> "no signers provided", doc |-> EmptyDoc, fed |-> <<>>]
    ELSE SignMultiResult(payload, SignMultiLoop(payload, signers, 1, <<>>, <<>>))

(***************************************************************************)
(* Parse, parseJSON, parseCompact                                          *)
(***************************************************************************)
KidK == <<107>>

\* json.Unmarshal of a header text into a Header: the headers the model
\* spells; Algorithm is "" when the text has no alg
HeaderUnmarshal(b) ==
    IF \E alg \in {"HS256", "RS256", "ES256", "none"}, kid \in {<<>>, KidK} :
          b = HeaderJSON(alg, kid)
    THEN [err |-> FALSE,
          alg |-> CHOOSE alg \in {"HS256", "RS256", "ES256", "none"} :
                     \E kid \in {<<>>, KidK} : b = HeaderJSON(alg, kid),
          kid |-> IF b[Len(b) - 2] = 107 /\ b[Len(b) - 3] = 34
                  THEN KidK ELSE <<>>]
    ELSE IF b \in {<<123, 125>>,
                   <<123, 34, 116, 121, 112, 34, 58, 34, 74, 87, 84, 34, 125>>}
    THEN [err |-> FALSE, alg |-> "", kid |-> <<>>]
    ELSE [err |-> TRUE, alg |-> "", kid |-> <<>>]

NoMessage == [Payload |-> <<>>, Signatures |-> <<>>]

ParseFailed(e) == [err |-> e, msg |-> NoMessage]

\* part_000:806-839, hdr being what json.Unmarshal(decodedHeader, hdr.Header)
\* stored: no default is given to a missing alg here
CompactMessage(sp, hdr) ==
    IF hdr.err THEN ParseFailed("failed to parse JOSE headers")
    ELSE IF ~B64UrlValid(sp.payload) THEN ParseFailed("failed to decode payload")
    ELSE IF ~B64UrlValid(sp.signature)
    THEN ParseFailed("failed to decode signature")
    ELSE [err |-> "nil",
          msg |-> [Payload |-> DecodeIntoBuf(sp.payload),
                   Signatures |->
                     <<[ProtectedHeader |-> [nil |-> FALSE, alg |-> hdr.alg,
                                             kid |-> hdr.kid,
                                             Source |-> sp.protected],
                        PublicHeader |-> [kid |-> <<>>],
                        Signature |-> DecodeIntoBuf(sp.signature)]>>]]

ParseSplit(sp) ==
    IF sp.err # "nil" THEN ParseFailed("invalid compact serialization format")
    ELSE IF ~B64UrlValid(sp.protected) THEN ParseFailed("failed to decode headers")
    ELSE CompactMessage(sp, HeaderUnmarshal(DecodeIntoBuf(sp.protected)))

\* parseCompact of the reader that delivers chunks
parseCompact(chunks) == ParseSplit(SplitCompact(chunks))

\* json.NewDecoder(src).Decode(&m) into struct{*Message; *Signature}: one
\* signature object, its members base64url text
DecodeSignature(e) ==
    [err |-> \/ e.protected.has /\ ~e.protected.str
             \/ e.protected.has /\ e.protected.str /\ ~B64UrlValid(e.protected.s)
             \/ e.protected.has /\ e.protected.str /\ B64UrlValid(e.protected.s)
                  /\ HeaderUnmarshal(DecodeIntoBuf(e.protected.s)).err
             \/ e.signature.has
                  /\ (~e.signature.str \/ ~B64UrlValid(e.signature.s)),
     sig |->
       [ProtectedHeader |->
           IF e.protected.has /\ e.protected.str /\ B64UrlValid(e.protected.s)
           THEN [nil |-> FALSE,
                 alg |-> HeaderUnmarshal(DecodeIntoBuf(e.protected.s)).alg,
                 kid |-> HeaderUnmarshal(DecodeIntoBuf(e.protected.s)).kid,
                 Source |-> e.protected.s]
           ELSE [nil |-> TRUE, alg |-> "", kid |-> <<>>, Source |-> <<>>],
        PublicHeader |-> [kid |-> <<>>],
        Signature |-> IF e.signature.has /\ e.signature.str
                         /\ B64UrlValid(e.signature.s)
                      THEN DecodeIntoBuf(e.signature.s) ELSE <<>>]]

DecodeMessage(doc) ==
    [err |-> \/ doc.payload.has
                 /\ (~doc.payload.str \/ ~B64UrlValid(doc.payload.s))
             \/ DecodeSignature(doc).err
             \/ \E k \in 1..Len(doc.signatures.list) :
                    DecodeSignature(doc.signatures.list[k]).err,
     hasMessage |-> doc.payload.has \/ doc.signatures.has,
     hasSignature |-> doc.protected.has \/ doc.header.has \/ doc.signature.has,
     Payload |-> IF doc.payload.has /\ doc.payload.str /\ B64UrlValid(doc.payload.s)
                 THEN DecodeIntoBuf(doc.payload.s) ELSE <<>>,
     Signatures |-> [k \in 1..Len(doc.signatures.list) |->
                        DecodeSignature(doc.signatures.list[k]).sig],
     Flat |-> DecodeSignature(doc).sig]

\* part_000:703-707: sig.ProtectedHeader is a pointer, so the default is
\* written to the entry itself
DefaultAlg(sig) ==
    IF sig.ProtectedHeader.alg = ""
    THEN [sig EXCEPT !.ProtectedHeader.alg = "none"]
    ELSE sig

\* part_000:703-709 on m.Message.Signatures
ParsedMessage(payload, sigs) ==
    IF \E k \in 1..Len(sigs) : sigs[k].ProtectedHeader.nil
    THEN ParseFailed("panic: nil pointer dereference")
    ELSE [err |-> "nil",
          msg |-> [Payload |-> payload,
                   Signatures |-> [k \in 1..Len(sigs) |-> DefaultAlg(sigs[k])]]]

\* part_000:690-709 with m what the decoder stored
ParseDecoded(m) ==
    IF m.err THEN ParseFailed("failed to parse jws message")
    ELSE IF ~m.hasMessage THEN ParseFailed("panic: nil pointer dereference")
    ELSE IF m.hasSignature /\ Len(m.Signatures) # 0
    THEN ParseFailed("invalid message: mixed flattened/full json serialization")
    ELSE IF m.hasSignature THEN ParsedMessage(m.Payload, <<m.Flat>>)
    ELSE ParsedMessage(m.Payload, m.Signatures)

parseJSON(doc) == ParseDecoded(DecodeMessage(doc))

\* the chunks bufio.Reader delivers to SplitCompact once Parse has read
\* the first nws bytes, white space, out of its buffer (part_000:659-671)
BufioReader(b, nws) ==
    IF Len(b) <= ReadBufSize THEN <<SubSeq(b, nws + 1, Len(b))>>
    ELSE <<SubSeq(b, nws + 1, ReadBufSize)>>
         \o WholeReader(SubSeq(b, ReadBufSize + 1, Len(b)))

LeadingSpaces(b) ==
    IF \A k \in 1..Len(b) : IsSpace(b[k]) THEN Len(b)
    ELSE Min({k \in 1..Len(b) : ~IsSpace(b[k])}) - 1

ParseFrom(b, nws) ==
    IF nws = Len(b) THEN ParseFailed("failed to read rune")
    ELSE IF b[nws + 1] = LBrace THEN ParseFailed("failed to parse jws message")
    ELSE parseCompact(BufioReader(b, nws))

Parse(src) ==
    IF src.json THEN parseJSON(src.doc)
    ELSE ParseFrom(src.bytes, LeadingSpaces(src.bytes))

(***************************************************************************)
(* The signers of signer.go.  A signer is its fields; a key that is nil    *)
(* has nil = TRUE.  An RSA or ECDSA key is an identity, an ECDSA key is    *)
(* also on a curve.                                                        *)
(***************************************************************************)
NilKey == [nil |-> TRUE, id |-> 0, curve |-> ""]

\* crypto.Hash.Size() of the hash EcdsaSign.hash() names, 0 for its error
EcdsaHashSize(alg) ==
    CASE alg = "ES256" -> 32
      [] alg = "ES384" -> 48
      [] alg = "ES512" -> 64
      [] OTHER -> 0

\* Curve.Params().BitSize
CurveBits(curve) ==
    CASE curve = "P-256" -> 256
      [] curve = "P-384" -> 384
      [] curve = "P-521" -> 521

\* signer.go:254-260: r.Bytes() and s.Bytes() copied to the right of their
\* halves of out, which make() zeroed
EcdsaOut(keysiz, r, s) ==
    Zeros(keysiz - Len(r)) \o r \o Zeros(keysiz - Len(s)) \o s

\* EcdsaSign.Sign; (r, s) is what ecdsa.Sign returns, as r.Bytes() and
\* s.Bytes()
EcdsaSignSign(sign, payload, r, s) ==
    IF EcdsaHashSize(sign.Algorithm) = 0
    THEN [err |-> "ErrUnsupportedAlgorithm", sig |-> <<>>]
    ELSE IF sign.PrivateKey.nil
    THEN [err |-> "no private key available", sig |-> <<>>]
    ELSE IF CurveBits(sign.PrivateKey.curve) # EcdsaHashSize(sign.Algorithm) * 8
    THEN [err |-> "key size does not match curve bit size", sig |-> <<>>]
    ELSE [err |-> "nil", sig |-> EcdsaOut(EcdsaHashSize(sign.Algorithm), r, s)]

\* RsaSign.hash(): whether it names a hash
RsaHashOK(alg) ==
    alg \in {"RS256", "RS384", "RS512", "PS256", "PS384", "PS512"}

\* RsaSign.Sign; rsa.SignPKCS1v15 and rsa.SignPSS are the ideal tag
RsaSignSign(sign, payload) ==
    IF ~RsaHashOK(sign.Algorithm)
    THEN [err |-> "ErrUnsupportedAlgorithm", sig |-> <<>>]
    ELSE IF sign.PrivateKey.nil
    THEN [err |-> "ErrMissingPrivateKey", sig |-> <<>>]
    ELSE [err |-> "nil", sig |-> Tag(sign.Algorithm, sign.PrivateKey, payload)]

\* HmacSign.Sign
HmacSignSign(sign, payload) ==
    IF sign.Algorithm \notin {"HS256", "HS384", "HS512"}
    THEN [err |-> "ErrUnsupportedAlgorithm", sig |-> <<>>]
    ELSE [err |-> "nil", sig |-> Tag(sign.Algorithm, sign.Key, payload)]

\* Signer.Sign of the interface
SignerOf(sign, payload, r, s) ==
    CASE sign.type = "rsa" -> RsaSignSign(sign, payload)
      [] sign.type = "ecdsa" -> EcdsaSignSign(sign, payload, r, s)
      [] sign.type = "hmac" -> HmacSignSign(sign, payload)

(***************************************************************************)
(* MultiSign.MultiSign                                                     *)
(***************************************************************************)
\* buffer.Buffer.Base64Encode
BufferBase64Encode(b) == B64UrlEncode(b)

\* signer.go:32-40: the protected header and its JSON; every signer of the
\* model has no JSONWebKey, so the header carries alg alone
ProtectedOf(signer) ==
    [nil |-> FALSE, alg |-> signer.Algorithm, kid |-> <<>>, Source |-> <<>>]

HeaderMarshal(h) == HeaderJSON(h.alg, h.kid)

\* signer.go:45
MultiSignSigningInput(payload, signer) ==
    HeaderMarshal(ProtectedOf(signer)) \o <<Dot>> \o BufferBase64Encode(payload)

\* signer.go:52-62
PublicOf(protected, signer) ==
    [kid |-> IF protected.kid # <<>> THEN protected.kid ELSE signer.KeyID]

RECURSIVE MultiSignLoop(_, _, _, _, _, _, _)
MultiSignStep(payload, signers, k, acc, given, r, s, ss, signed) ==
    IF signed.err # "nil"
    THEN [err |-> signed.err, msg |-> NoMessage, fed |-> Append(given, ss)]
    ELSE MultiSignLoop(payload, signers, k + 1,
            Append(acc,
               [ProtectedHeader |-> ProtectedOf(signers[k]),
                PublicHeader |-> PublicOf(ProtectedOf(signers[k]), signers[k]),
                Signature |-> signed.sig]),
            Append(given, ss), r, s)

MultiSignSignWith(payload, signers, k, acc, given, r, s, ss) ==
    MultiSignStep(payload, signers, k, acc, given, r, s, ss,
                  SignerOf(signers[k], ss, r, s))

\* the loop over m.Signers (signer.go:31-71), from signer k on
MultiSignLoop(payload, signers, k, acc, given, r, s) ==
    IF k > Len(signers)
    THEN [err |-> "nil", msg |-> [Payload |-> payload, Signatures |-> acc],
          fed |-> given]
    ELSE MultiSignSignWith(payload, signers, k, acc, given, r, s,
            MultiSignSigningInput(payload, signers[k]))

MultiSign(signers, payload, r, s) ==
    MultiSignLoop(payload, signers, 1, <<>>, <<>>, r, s)

(***************************************************************************)
(* CompactSerialize.Serialize                                              *)
(***************************************************************************)
\* Header.Merge: the members the second header sets are set in the copy
HeaderMerge(h, pub) ==
    [h EXCEPT !.kid = IF pub.kid # <<>> THEN pub.kid ELSE h.kid]

\* Header.Base64Encode
HeaderBase64Encode(h) == B64UrlEncode(HeaderMarshal(h))

Serialize(m) ==
    IF Len(m.Signatures) # 1
    THEN [err |-> "wrong number of signatures for compact serialization",
          out |-> <<>>]
    ELSE [err |-> "nil",
          out |-> HeaderBase64Encode(HeaderMerge(m.Signatures[1].ProtectedHeader,
                                                 m.Signatures[1].PublicHeader))
                  \o <<Dot>> \o BufferBase64Encode(m.Payload)
                  \o <<Dot>> \o BufferBase64Encode(m.Signatures[1].Signature)]

(***************************************************************************)
(* EcdsaSign.Verify                                                        *)
(***************************************************************************)
\* (&big.Int{}).SetBytes(b), held as the bytes of the number: b without
\* its leading zero bytes
StripZeros(b) ==
    IF \A k \in 1..Len(b) : b[k] = 0 THEN <<>>
    ELSE SubSeq(b, Min({k \in 1..Len(b) : b[k] # 0}), Len(b))

\* ecdsa.Verify(pubkey, digest, rv, sv) for the digest of a payload that
\* the key pair of signedBy signed as (r, s)
EcdsaVerifyOK(pubkey, rv, sv, signedBy, r, s) ==
    pubkey.id = signedBy.id /\ pubkey.curve = signedBy.curve /\ rv = r /\ sv = s

\* signer.go:279-293, with pubkey the key chosen and keysiz = hash.Size()
EcdsaVerifyWith(pubkey, keysiz, signature, signedBy, r, s) ==
    IF Len(signature) # 2 * keysiz
    THEN [err |-> "ErrInvalidEcdsaSignatureSize", rv |-> <<>>, sv |-> <<>>]
    ELSE IF ~EcdsaVerifyOK(pubkey,
                           StripZeros(SubSeq(signature, 1, keysiz)),
                           StripZeros(SubSeq(signature, keysiz + 1, Len(signature))),
                           signedBy, r, s)
    THEN [err |-> "ErrInvalidSignature",
          rv |-> StripZeros(SubSeq(signature, 1, keysiz)),
          sv |-> StripZeros(SubSeq(signature, keysiz + 1, Len(signature)))]
    ELSE [err |-> "nil",
          rv |-> StripZeros(SubSeq(signature, 1, keysiz)),
          sv |-> StripZeros(SubSeq(signature, keysiz + 1, Len(signature)))]

\* EcdsaSign.Verify; (r, s) is the signature signedBy made of the payload
EcdsaSignVerify(sign, payload, signature, signedBy, r, s) ==
    IF sign.PublicKey.nil /\ sign.PrivateKey.nil
    THEN [err |-> "no private/public key available", rv |-> <<>>, sv |-> <<>>]
    ELSE IF EcdsaHashSize(sign.Algorithm) = 0
    THEN [err |-> "ErrUnsupportedAlgorithm", rv |-> <<>>, sv |-> <<>>]
    ELSE EcdsaVerifyWith(IF sign.PublicKey.nil THEN sign.PrivateKey
                         ELSE sign.PublicKey,
                         EcdsaHashSize(sign.Algorithm), signature, signedBy, r, s)

(***************************************************************************)
(* VerifyWithJWK, VerifyWithJWKSet.  A jwk.Key is its alg and use          *)
(* attributes, the key it materializes to, and whether Materialize fails.  *)
(***************************************************************************)
\* jwk.Key.Materialize
Materialize(key) == [err |-> key.bad, keyval |-> key.key]

\* a run-time panic unwinds through every caller
IsPanic(e) ==
    e \in {"panic: index out of range", "panic: nil pointer dereference"}

\* part_000:617-621, after Verify returned v
VerifyWithJWKWrap(v) ==
    IF v.err = "nil" \/ IsPanic(v.err) THEN v
    ELSE Failed("failed to verify message")

\* part_000:606-622
VerifyWithJWK(buf, key) ==
    IF Materialize(key).err THEN Failed("failed to materialize jwk.Key")
    ELSE VerifyWithJWKWrap(Verify(buf, key.alg, Materialize(key).keyval))

\* the acceptor of section 6.4: use is unset, "sig" or "enc"
DefaultJWKAcceptor(key) == key.use \in {"", "sig", "enc"}

\* keyaccept(key): the default when the caller passed nil (part_000:633-635),
\* else the caller's own, which accepts the uses it names
KeyAccept(keyaccept, key) ==
    IF keyaccept.nil THEN DefaultJWKAcceptor(key)
    ELSE key.use \in keyaccept.uses

\* the loop over keyset.Keys (part_000:637-646), from key k on; tried lists
\* the keys VerifyWithJWK was called with so far
RECURSIVE VerifyWithJWKSetLoop(_, _, _, _, _)
VerifyWithJWKSetStep(buf, keys, keyaccept, k, tried, r) ==
    IF r.err = "nil" \/ IsPanic(r.err)
    THEN [err |-> r.err, ret |-> r.ret, retNil |-> r.retNil, tried |-> tried]
    ELSE VerifyWithJWKSetLoop(buf, keys, keyaccept, k + 1, tried)

VerifyWithJWKSetLoop(buf, keys, keyaccept, k, tried) ==
    IF k > Len(keys)
    THEN [err |-> "failed to verify with any of the keys", ret |-> <<>>,
          retNil |-> TRUE, tried |-> tried]
    ELSE IF ~KeyAccept(keyaccept, keys[k])
    THEN VerifyWithJWKSetLoop(buf, keys, keyaccept, k + 1, tried)
    ELSE VerifyWithJWKSetStep(buf, keys, keyaccept, k, Append(tried, k),
                              VerifyWithJWK(buf, keys[k]))

\* part_000:628-649
VerifyWithJWKSet(buf, keys, keyaccept) ==
    VerifyWithJWKSetLoop(buf, keys, keyaccept, 1, <<>>)

(***************************************************************************)
(* RsaSign.Verify.  A key pair is named by its id: &PrivateKey.PublicKey   *)
(* is the key of the same pair, and a signature verifies under the pair    *)
(* that made it.                                                           *)
(***************************************************************************)
\* signer.go:168-178
RsaVerifyWith(alg, pubkey, payload, signature) ==
    [err |-> IF signature = Tag(alg, pubkey, payload) THEN "nil"
             ELSE "crypto/rsa: verification error",
     pubkey |-> pubkey]

\* the order of the tests turned around: the keys before the algorithm
RsaSignVerifyKeysFirst(sign, payload, signature) ==
    IF sign.PublicKey.nil /\ sign.PrivateKey.nil
    THEN [err |-> "ErrMissingPublicKey", pubkey |-> NilKey]
    ELSE IF ~RsaHashOK(sign.Algorithm)
    THEN [err |-> "ErrUnsupportedAlgorithm", pubkey |-> NilKey]
    ELSE RsaVerifyWith(sign.Algorithm,
                       IF sign.PublicKey.nil THEN sign.PrivateKey
                       ELSE sign.PublicKey,
                       payload, signature)

\* signer.go:154-179
RsaSignVerify(sign, payload, signature) ==
    IF ~RsaHashOK(sign.Algorithm)
    THEN [err |-> "ErrUnsupportedAlgorithm", pubkey |-> NilKey]
    ELSE IF sign.PublicKey.nil /\ sign.PrivateKey.nil
    THEN [err |-> "ErrMissingPublicKey", pubkey |-> NilKey]
    ELSE RsaVerifyWith(sign.Algorithm,
                       IF sign.PublicKey.nil THEN sign.PrivateKey
                       ELSE sign.PublicKey,
                       payload, signature)

(***************************************************************************)
(* NewRsaSign, NewEcdsaSign, NewHmacSign                                   *)
(***************************************************************************)
NoSigner == [type |-> "", Algorithm |-> "", PrivateKey |-> NilKey,
             PublicKey |-> NilKey, Key |-> NilKey, KeyID |-> <<>>]

\* signer.go:80-91
NewRsaSign(alg, key) ==
    IF alg \notin {"RS256", "RS384", "RS512", "PS256", "PS384", "PS512"}
    THEN [err |-> "ErrUnsupportedAlgorithm", hasSigner |-> FALSE,
          signer |-> NoSigner]
    ELSE [err |-> "nil", hasSigner |-> TRUE,
          signer |-> [type |-> "rsa", Algorithm |-> alg, PrivateKey |-> key,
                      PublicKey |-> NilKey, Key |-> NilKey, KeyID |-> <<>>]]

\* signer.go:181-193; &key.PublicKey of a nil key is a nil dereference
NewEcdsaSign(alg, key) ==
    IF alg \notin {"ES256", "ES384", "ES512"}
    THEN [err |-> "ErrUnsupportedAlgorithm", hasSigner |-> FALSE,
          signer |-> NoSigner]
    ELSE IF key.nil
    THEN [err |-> "panic: nil pointer dereference", hasSigner |-> FALSE,
          signer |-> NoSigner]
    ELSE [err |-> "nil", hasSigner |-> TRUE,
          signer |-> [type |-> "ecdsa", Algorithm |-> alg, PrivateKey |-> key,
                      PublicKey |-> key, Key |-> NilKey, KeyID |-> <<>>]]

\* signer.go:296-301
NewHmacSign(alg, key) ==
    [err |-> "nil", hasSigner |-> TRUE,
     signer |-> [type |-> "hmac", Algorithm |-> alg, PrivateKey |-> NilKey,
                 PublicKey |-> NilKey, Key |-> key, KeyID |-> <<>>]]

(***************************************************************************)
(* The inputs the calls are made with                                      *)
(***************************************************************************)
MaxPayloadLen == 2
BigPayloadLen == 3072
MaxTextLen == 4

SeqsUpTo(S, n) == UNION {[1..k -> S] : k \in 0..n}

PayloadBytes == {0, Dot, 97, 255}

\* the short payloads, and one whose serialization is longer than one Read
Payloads ==
    SeqsUpTo(PayloadBytes, MaxPayloadLen) \cup {[k \in 1..BigPayloadLen |-> 97]}

Algs == {"HS256", "RS256", "ES256", "none", "FooBar"}

Keys ==
    {[kty |-> "oct", id |-> 1], [kty |-> "oct", id |-> 2],
     [kty |-> "RSA", id |-> 3], [kty |-> "EC", id |-> 4]}

\* text of '.', 'a' and '{'; no '}', so none of it is a JSON object
Texts == SeqsUpTo({Dot, 97, LBrace}, MaxTextLen)

\* data cut after the positions of C into the chunks a reader delivers
Chunks(data, C) ==
    LET cuts == C \cup {Len(data)}
        rank(c) == Cardinality({d \in cuts : d <= c})
        start(c) == 1 + (IF {d \in C : d < c} = {} THEN 0
                         ELSE CHOOSE d \in C : d < c /\ \A e \in C : e < c => e <= d)
    IN  IF Len(data) = 0 THEN <<>>
        ELSE [k \in 1..Cardinality(cuts) |->
                LET c == CHOOSE c \in cuts : rank(c) = k
                IN  SubSeq(data, start(c), c)]

Chunkings(data) == {Chunks(data, C) : C \in SUBSET (1..(Len(data) - 1))}

RECURSIVE Concat(_)
Concat(chunks) ==
    IF chunks = <<>> THEN <<>> ELSE Head(chunks) \o Concat(Tail(chunks))

Bytes(b) == [json |-> FALSE, bytes |-> b, doc |-> EmptyDoc]

Json(d) == [json |-> TRUE, bytes |-> <<>>, doc |-> d]

K1 == [kty |-> "oct", id |-> 1]

K2 == [kty |-> "oct", id |-> 2]

\* the text of a JSON member: base64url as RFC 7515 has it, or, as
\* SignMulti writes it, the padded base64 of that text
Member(t, rfc) == IF rfc THEN Str(t) ELSE Str(B64StdEncode(t))

\* a signature object whose protected header is the text hdr, signed with
\* HS256 and key over payload text ptext
Entry(hdr, ptext, key, rfc) ==
    [protected |-> Member(B64UrlEncode(hdr), rfc),
     header |-> Absent,
     signature |-> Member(B64UrlEncode(
                       Tag("HS256", key, B64UrlEncode(hdr) \o <<Dot>> \o ptext)),
                     rfc)]

NoEntry == [protected |-> Absent, header |-> Absent, signature |-> Absent]

HS256Header == HeaderJSON("HS256", <<>>)

\* signed by K1, signed by K2, a header without alg, a signature that is
\* not base64url, no protected header, an unprotected header
Entries(ptext, rfc) ==
    {Entry(HS256Header, ptext, K1, rfc),
     Entry(HS256Header, ptext, K2, rfc),
     Entry(<<123, 125>>, ptext, K1, rfc),
     [Entry(HS256Header, ptext, K1, rfc) EXCEPT !.signature = Member(<<33>>, rfc)],
     [Entry(HS256Header, ptext, K1, rfc) EXCEPT !.protected = Absent],
     [Entry(HS256Header, ptext, K1, rfc) EXCEPT !.header = Obj]}

MaxEntries == 2

\* the texts of the payload member: base64url of "" and of "a", and a text
\* that is not base64url
PayloadTexts == {<<>>, <<89, 81>>, <<89>>}

DocsOf(t, rfc) ==
    {[payload |-> pm, signatures |-> sg, protected |-> f.protected,
      header |-> f.header, signature |-> f.signature] :
        pm \in {Absent, Member(t, rfc)},
        sg \in {NoSignatures}
               \cup {[has |-> TRUE, list |-> l] :
                       l \in SeqsUpTo(Entries(t, rfc), MaxEntries)},
        f \in {NoEntry} \cup Entries(t, rfc)}

Docs == UNION {DocsOf(t, rfc) : t \in PayloadTexts, rfc \in BOOLEAN}

\* compact serializations: header text, payload and signature bytes
Token(hdr, p, sig) ==
    B64UrlEncode(hdr) \o <<Dot>> \o B64UrlEncode(p) \o <<Dot>> \o B64UrlEncode(sig)

SignedToken(hdr, p, key) ==
    B64UrlEncode(hdr) \o <<Dot>> \o B64UrlEncode(p) \o <<Dot>>
    \o B64UrlEncode(Tag("HS256", key, B64UrlEncode(hdr) \o <<Dot>> \o B64UrlEncode(p)))

HeaderTexts ==
    {HS256Header, HeaderJSON("none", <<>>), HeaderJSON("HS256", KidK),
     <<123, 125>>,
     <<123, 34, 116, 121, 112, 34, 58, 34, 74, 87, 84, 34, 125>>,
     <<123>>}

Tokens ==
    {SignedToken(hdr, p, K1) : hdr \in HeaderTexts, p \in {<<>>, <<97>>}}
    \cup {Token(hdr, <<97>>, <<>>) : hdr \in HeaderTexts}
    \cup {<<32, 10>> \o SignedToken(HS256Header, <<97>>, K1) \o <<10>>,
          SignedToken(HS256Header, <<97>>, K1) \o <<Dot, 97>>}

\* big.Int.Bytes() of the r and s ecdsa.Sign can return on a curve whose
\* order takes n bytes: no leading zero byte, 1 to n bytes
BigInts(n) == {<<1>>} \cup {<<1>> \o [k \in 1..(m - 1) |-> 255] : m \in {n - 1, n}}

CurveBytes(curve) == (CurveBits(curve) + 7) \div 8

Curves == {"P-256", "P-384", "P-521"}

EcKey(curve) == [nil |-> FALSE, id |-> 4, curve |-> curve]

EcdsaSigners ==
    {[type |-> "ecdsa", Algorithm |-> alg, PrivateKey |-> k, Key |-> NilKey,
      KeyID |-> <<>>] :
        alg \in {"ES256", "ES384", "ES512", "FooBar"},
        k \in {NilKey} \cup {EcKey(c) : c \in Curves}}

RsaKey == [nil |-> FALSE, id |-> 3, curve |-> ""]

HmacKey == [nil |-> FALSE, id |-> 1, curve |-> ""]

\* the signers MultiSign is given: with and without a KeyID
Signers ==
    {[type |-> "rsa", Algorithm |-> "RS256", PrivateKey |-> RsaKey,
      Key |-> NilKey, KeyID |-> kid] : kid \in {<<>>, KidK}}
    \cup {[type |-> "rsa", Algorithm |-> "RS256", PrivateKey |-> NilKey,
           Key |-> NilKey, KeyID |-> <<>>]}
    \cup {[type |-> "hmac", Algorithm |-> "HS256", PrivateKey |-> NilKey,
           Key |-> HmacKey, KeyID |-> kid] : kid \in {<<>>, KidK}}
    \cup {[type |-> "ecdsa", Algorithm |-> "ES256", PrivateKey |-> EcKey("P-256"),
           Key |-> NilKey, KeyID |-> KidK]}

MaxSigners == 2

(***************************************************************************)
(* The calls.  A call is made on the idle library; a serialization or a    *)
(* message one call returned can be handed to a second call.               *)
(***************************************************************************)
Idle == [op |-> "idle"]

Init == call = Idle /\ fed = <<>> /\ result = [err |-> "nil", fed |-> <<>>]

\* the state after a call c that returned r, r.fed being what it handed
\* to the signing primitive
Called(c, r) ==
    /\ call' = c
    /\ fed' = r.fed
    /\ result' = r

NoFed(r) == [x \in DOMAIN r \cup {"fed"} |-> IF x = "fed" THEN <<>> ELSE r[x]]

DoSign ==
    /\ call.op = "idle"
    /\ \E payload \in Payloads, alg \in Algs, key \in Keys :
         Called([op |-> "Sign", payload |-> payload, alg |-> alg, key |-> key],
                Sign(payload, alg, key))

SignerLists ==
    SeqsUpTo({[alg |-> "HS256", key |-> [kty |-> "oct", id |-> 1]],
              [alg |-> "RS256", key |-> [kty |-> "RSA", id |-> 3]],
              [alg |-> "ES256", key |-> [kty |-> "oct", id |-> 2]]}, 2)

DoSignMulti ==
    /\ call.op = "idle"
    /\ \E payload \in Payloads, signers \in SignerLists :
         Called([op |-> "SignMulti", payload |-> payload, signers |-> signers],
                SignMulti(payload, signers))

WhiteSpaced(b, ws) == IF ws THEN <<32, 10>> \o b \o <<13, 10>> ELSE b

\* Verify of what Sign returned, as it is or between white space
DoVerifySigned ==
    /\ call.op = "Sign" /\ result.err = "nil"
    /\ \E alg \in Algs, key \in Keys, ws \in BOOLEAN :
         Called([op |-> "Verify", from |-> "Sign",
                 buf |-> Bytes(WhiteSpaced(result.out, ws)),
                 alg |-> alg, key |-> key, signed |-> call, ws |-> ws],
                NoFed(Verify(Bytes(WhiteSpaced(result.out, ws)), alg, key)))

\* Verify of what SignMulti returned
DoVerifyMulti ==
    /\ call.op = "SignMulti" /\ result.err = "nil"
    /\ \E alg \in Algs, key \in Keys :
         Called([op |-> "Verify", from |-> "SignMulti",
                 buf |-> Json(result.doc), alg |-> alg, key |-> key,
                 signed |-> call],
                NoFed(Verify(Json(result.doc), alg, key)))

DoSplitCompact ==
    /\ call.op = "idle"
    /\ \E data \in Texts :
         \E chunks \in Chunkings(data) :
            Called([op |-> "SplitCompact", data |-> data, chunks |-> chunks],
                   NoFed(SplitCompact(chunks)))

\* Verify of a serialization the caller received
DoVerifyReceived ==
    /\ call.op = "idle"
    /\ \E buf \in {Json(d) : d \in Docs} \cup {Bytes(t) : t \in Tokens \cup Texts},
          key \in {K1, K2} :
         Called([op |-> "Verify", from |-> "received", buf |-> buf,
                 alg |-> "HS256", key |-> key, signed |-> Idle],
                NoFed(Verify(buf, "HS256", key)))

DoParse ==
    /\ call.op = "idle"
    /\ \E src \in {Json(d) : d \in Docs} \cup {Bytes(t) : t \in Tokens \cup Texts} :
         Called([op |-> "Parse", src |-> src], NoFed(Parse(src)))

DoMultiSign ==
    /\ call.op = "idle"
    /\ \E payload \in SeqsUpTo(PayloadBytes, MaxPayloadLen),
          signers \in SeqsUpTo(Signers, MaxSigners),
          r \in BigInts(CurveBytes("P-256")), s \in BigInts(CurveBytes("P-256")) :
         Called([op |-> "MultiSign", payload |-> payload, signers |-> signers],
                MultiSign(signers, payload, r, s))

\* Serialize of a message MultiSign or Parse returned
DoSerialize ==
    /\ call.op \in {"MultiSign", "Parse"} /\ result.err = "nil"
    /\ Called([op |-> "Serialize", m |-> result.msg, from |-> call],
              NoFed(Serialize(result.msg)))

DoEcdsaSign ==
    /\ call.op = "idle"
    /\ \E sign \in EcdsaSigners, payload \in {<<>>, <<97>>} :
         \E r \in BigInts(CurveBytes(IF sign.PrivateKey.nil THEN "P-256"
                                     ELSE sign.PrivateKey.curve)),
            s \in BigInts(CurveBytes(IF sign.PrivateKey.nil THEN "P-256"
                                     ELSE sign.PrivateKey.curve)) :
            Called([op |-> "EcdsaSign.Sign", sign |-> sign, payload |-> payload,
                    r |-> r, s |-> s],
                   NoFed(EcdsaSignSign(sign, payload, r, s)))

(***************************************************************************)
(* Calls on the signer values of signer.go                                 *)
(***************************************************************************)
\* EcdsaSign values: no key, a private key with or without its public
\* half set, a public key alone
EcdsaVerifiers ==
    {[type |-> "ecdsa", Algorithm |-> alg, PrivateKey |-> priv,
      PublicKey |-> pub] :
        alg \in {"ES256", "ES384", "ES512", "FooBar"},
        priv \in {NilKey} \cup {EcKey(c) : c \in Curves},
        pub \in {NilKey} \cup {EcKey(c) : c \in Curves}}

\* b padded on the left with zero bytes to w bytes
\* the signatures given to Verify: r then s, or s then r, in halves of
\* one width (the bytes of a curve or of a digest), each half padded with
\* zeros on the left, and two that are no signature
EcdsaSignatures(r, s) ==
    {Zeros(w - Len(p[1])) \o p[1] \o Zeros(w - Len(p[2])) \o p[2] :
        w \in {v \in {CurveBytes(c) : c \in Curves}
                      \cup {EcdsaHashSize("ES512")} :
                  Len(r) <= v /\ Len(s) <= v},
        p \in {<<r, s>>, <<s, r>>}}
    \cup {<<>>, <<1>>}

DoEcdsaVerify ==
    /\ call.op = "idle"
    /\ \E sign \in EcdsaVerifiers, curve \in Curves :
         \E r \in BigInts(CurveBytes(curve)), s \in BigInts(CurveBytes(curve)) :
            \E signature \in EcdsaSignatures(r, s) :
               Called([op |-> "EcdsaSign.Verify", sign |-> sign,
                       payload |-> <<97>>, signature |-> signature,
                       signedBy |-> EcKey(curve), r |-> r, s |-> s],
                      NoFed(EcdsaSignVerify(sign, <<97>>, signature,
                                            EcKey(curve), r, s)))

\* the names a constructor is given: every algorithm of jwa, and two that
\* are none
AlgNames ==
    {"HS256", "HS384", "HS512", "RS256", "RS384", "RS512", "PS256", "PS384",
     "PS512", "ES256", "ES384", "ES512", "none", "FooBar", ""}

DoNewRsaSign ==
    /\ call.op = "idle"
    /\ \E alg \in AlgNames, key \in {NilKey, RsaKey} :
         Called([op |-> "NewRsaSign", alg |-> alg, key |-> key],
                NoFed(NewRsaSign(alg, key)))

DoNewEcdsaSign ==
    /\ call.op = "idle"
    /\ \E alg \in AlgNames, key \in {NilKey} \cup {EcKey(c) : c \in Curves} :
         Called([op |-> "NewEcdsaSign", alg |-> alg, key |-> key],
                NoFed(NewEcdsaSign(alg, key)))

DoNewHmacSign ==
    /\ call.op = "idle"
    /\ \E alg \in AlgNames, key \in {NilKey, HmacKey} :
         Called([op |-> "NewHmacSign", alg |-> alg, key |-> key],
                NoFed(NewHmacSign(alg, key)))

(***************************************************************************)
(* Calls of VerifyWithJWK and VerifyWithJWKSet                             *)
(***************************************************************************)
\* K1 for signatures; K2 without a use; K1 without an alg; K1 for a use
\* the default acceptor rejects; a K1 that does not materialize
JWKs ==
    {[alg |-> "HS256", use |-> "sig", key |-> K1, bad |-> FALSE],
     [alg |-> "HS256", use |-> "", key |-> K2, bad |-> FALSE],
     [alg |-> "", use |-> "sig", key |-> K1, bad |-> FALSE],
     [alg |-> "HS256", use |-> "tls", key |-> K1, bad |-> FALSE],
     [alg |-> "HS256", use |-> "enc", key |-> K1, bad |-> TRUE]}

MaxKeys == 3

\* messages signed by K1 or by K2, with and without alg in the protected
\* header; text that is no message; the JSON serializations of a payload
\* and one signature object or none, and the empty object
JwkBufs ==
    {Bytes(SignedToken(hdr, <<97>>, key)) :
        hdr \in {HS256Header, <<123, 125>>}, key \in {K1, K2}}
    \cup {Bytes(<<97>>)}
    \cup {Json(d) : d \in
             {e \in Docs :
                 (e.payload.has \/ e = EmptyDoc)
                 /\ Len(e.signatures.list)
                    + (IF e.protected.has \/ e.header.has \/ e.signature.has
                       THEN 1 ELSE 0)
                    <= 1}}

DoVerifyWithJWK ==
    /\ call.op = "idle"
    /\ \E buf \in JwkBufs, key \in JWKs :
         Called([op |-> "VerifyWithJWK", buf |-> buf, key |-> key],
                NoFed(VerifyWithJWK(buf, key)))

DoVerifyWithJWKSet ==
    /\ call.op = "idle"
    /\ \E buf \in JwkBufs, keys \in SeqsUpTo(JWKs, MaxKeys),
          \* nil, or an acceptor of the caller's for "sig" and "tls" keys
          keyaccept \in {[nil |-> TRUE, uses |-> {}],
                         [nil |-> FALSE, uses |-> {"sig", "tls"}]} :
         Called([op |-> "VerifyWithJWKSet", buf |-> buf, keys |-> keys,
                 keyaccept |-> keyaccept],
                NoFed(VerifyWithJWKSet(buf, keys, keyaccept)))

(***************************************************************************)
(* Calls of RsaSign.Sign and RsaSign.Verify                                *)
(***************************************************************************)
\* a second RSA key pair
OtherRsaKey == [nil |-> FALSE, id |-> 5, curve |-> ""]

\* RsaSign values as a caller can build them, with or without NewRsaSign
RsaSigns ==
    {[type |-> "rsa", Algorithm |-> alg, PrivateKey |-> priv,
      PublicKey |-> pub] :
        alg \in {"RS256", "RS512", "PS256", "PS384", "HS256", "ES256",
                 "FooBar", ""},
        priv \in {NilKey, RsaKey, OtherRsaKey},
        pub \in {NilKey, RsaKey, OtherRsaKey}}

\* signatures handed to RsaSign.Verify: made by either pair, under the
\* verifier's algorithm or another, and two that no signer made
RsaSignatures(sign, payload) ==
    {Tag(alg, key, payload) :
        alg \in {a \in {sign.Algorithm, "RS256", "PS256"} : RsaHashOK(a)},
        key \in {RsaKey, OtherRsaKey}}
    \cup {<<>>, <<100, 101, 102>>}

DoRsaSign ==
    /\ call.op = "idle"
    /\ \E sign \in RsaSigns, payload \in {<<>>, <<97, 98, 99>>} :
         Called([op |-> "RsaSign.Sign", sign |-> sign, payload |-> payload],
                NoFed(RsaSignSign(sign, payload)))

DoRsaVerify ==
    /\ call.op = "idle"
    /\ \E sign \in RsaSigns, payload \in {<<>>, <<97, 98, 99>>} :
         \E signature \in RsaSignatures(sign, payload) :
            Called([op |-> "RsaSign.Verify", sign |-> sign,
                    payload |-> payload, signature |-> signature],
                   NoFed(RsaSignVerify(sign, payload, signature)))

SignerNext ==
    \/ DoEcdsaVerify
    \/ DoRsaSign
    \/ DoRsaVerify
    \/ DoNewRsaSign
    \/ DoNewEcdsaSign
    \/ DoNewHmacSign

\* the calls on signer values alone
SignerSpec == Init /\ [][SignerNext]_vars

Next ==
    \/ DoVerifyReceived
    \/ DoSign
    \/ DoSignMulti
    \/ DoVerifySigned
    \/ DoVerifyMulti
    \/ DoSplitCompact
    \/ DoParse
    \/ DoMultiSign
    \/ DoSerialize
    \/ DoEcdsaSign
    \/ DoVerifyWithJWK
    \/ DoVerifyWithJWKSet

Spec == Init /\ [][Next]_vars

(***************************************************************************)
(* The properties the documentation states, each as a formula of Spec      *)
(***************************************************************************)

\* the text between the dots of a serialization with exactly two of them
DotsOf(b) == {i \in 1..Len(b) : b[i] = Dot}

FirstDot(b) == Min(DotsOf(b))

LastDot(b) == CHOOSE i \in DotsOf(b) : \A j \in DotsOf(b) : j <= i

Segment(b, k) ==
    CASE k = 1 -> SubSeq(b, 1, FirstDot(b) - 1)
      [] k = 2 -> SubSeq(b, FirstDot(b) + 1, LastDot(b) - 1)
      [] k = 3 -> SubSeq(b, LastDot(b) + 1, Len(b))

\* C1: compact round trip.  Verify of the serialization Sign returned for a
\* payload, with the algorithm and the key it was signed with, returns no
\* error and exactly the bytes of the payload.
CompactRoundTrip ==
    (/\ call.op = "Verify" /\ call.from = "Sign" /\ ~call.ws
     /\ call.alg = call.signed.alg /\ call.key = call.signed.key)
    => (/\ result.err = "nil"
        /\ ~result.retNil
        /\ result.ret = call.signed.payload)

\* the JSON of the protected header of entry i of a signing call
ProtectedJSON(c, i) ==
    CASE c.op = "Sign" -> HeaderJSON(c.alg, <<>>)
      [] c.op = "SignMulti" -> HeaderJSON(c.signers[i].alg, <<>>)
      [] c.op = "MultiSign" -> HeaderMarshal(ProtectedOf(c.signers[i]))

\* C2: in Sign, SignMulti and MultiSign.MultiSign the bytes handed to the
\* signing primitive for every signature entry are base64url(protected
\* header JSON), one '.', base64url(payload); never the JSON itself.
FedIsEncodedSigningInput ==
    call.op \in {"Sign", "SignMulti", "MultiSign"}
    => \A i \in 1..Len(fed) :
          fed[i] = B64UrlEncode(ProtectedJSON(call, i)) \o <<Dot>>
                   \o B64UrlEncode(call.payload)

\* the signature entries of a JSON serialization: the top-level one, when
\* it has one, and those of its signatures member, as json.Unmarshal stores
\* their bytes
StoredEntries(doc) ==
    (IF doc.protected.has \/ doc.header.has \/ doc.signature.has
     THEN <<EncodedSignatureOf(doc)>> ELSE <<>>)
    \o [k \in 1..Len(doc.signatures.list) |->
          EncodedSignatureOf(doc.signatures.list[k])]

\* the verifier accepts entry e over protected '.' payload
EntryAccepted(e, payload, alg, key) ==
    /\ B64UrlValid(e.Signature)
    /\ VerifierVerify(alg, key, e.Protected \o <<Dot>> \o payload,
                      DecodeIntoBuf(e.Signature))

AcceptedJSON(doc, alg, key) ==
    /\ ~UnmarshalFull(doc).err
    /\ \E k \in 1..Len(StoredEntries(doc)) :
          EntryAccepted(StoredEntries(doc)[k], BytesOf(doc.payload), alg, key)

AcceptedCompact(b, alg, key) ==
    /\ CountByte(b, Dot) = 2
    /\ EntryAccepted([Protected |-> Segment(b, 1), Signature |-> Segment(b, 3)],
                     Segment(b, 2), alg, key)

Accepted(buf, alg, key) ==
    /\ SignerNew(alg)
    /\ IF buf.json THEN AcceptedJSON(buf.doc, alg, key)
       ELSE AcceptedCompact(TrimSpace(buf.bytes), alg, key)

\* the payload of the serialization is base64url text
PayloadDecodes(buf) ==
    IF buf.json THEN B64UrlValid(BytesOf(buf.doc.payload))
    ELSE CountByte(TrimSpace(buf.bytes), Dot) = 2
            => B64UrlValid(Segment(TrimSpace(buf.bytes), 2))

\* C3: Verify returns a payload if and only if the verifier accepts some
\* signature entry of the message over that entry's protected '.' payload,
\* whatever the entries before it did; when it accepts none, Verify returns
\* an error.
VerifyReturnsIffAccepted ==
    (call.op = "Verify" /\ PayloadDecodes(call.buf))
    => (/\ (result.err = "nil" /\ ~result.retNil)
              <=> Accepted(call.buf, call.alg, call.key)
        /\ ~Accepted(call.buf, call.alg, call.key) => result.err # "nil")

\* a flattened JSON serialization: payload, a top-level protected and
\* signature, no signatures member
IsFlattened(doc) ==
    /\ doc.payload.has /\ doc.payload.str
    /\ doc.protected.has /\ doc.protected.str
    /\ doc.signature.has /\ doc.signature.str
    /\ ~doc.header.has
    /\ ~doc.signatures.has

FlattenedValid(doc, alg, key) ==
    /\ IsFlattened(doc)
    /\ ~UnmarshalFull(doc).err
    /\ B64UrlValid(BytesOf(doc.payload))
    /\ EntryAccepted(EncodedSignatureOf(doc), BytesOf(doc.payload), alg, key)

\* C4: Verify of a flattened JSON serialization whose signature is valid
\* for the algorithm and key returns the decoded payload and no error: the
\* absent signatures member makes it neither fail nor crash.
VerifyFlattened ==
    (/\ call.op = "Verify" /\ call.buf.json
     /\ FlattenedValid(call.buf.doc, call.alg, call.key))
    => (/\ result.err = "nil"
        /\ ~result.retNil
        /\ result.ret = DecodeIntoBuf(BytesOf(call.buf.doc.payload)))

\* JSON with a top-level signature member and a non-empty signatures array
IsMixed(doc) == doc.signature.has /\ Len(doc.signatures.list) > 0

MixedSerialization == "invalid message: mixed flattened/full json serialization"

\* C5: Parse and Verify both reject JSON that carries a top-level signature
\* next to a non-empty signatures array, Parse with the mixed-serialization
\* error, and Verify returns an error and no payload for it.
MixedIsRejected ==
    /\ (/\ call.op = "Parse" /\ call.src.json
        /\ IsMixed(call.src.doc) /\ ~DecodeMessage(call.src.doc).err)
       => result.err = MixedSerialization
    /\ (/\ call.op = "Verify" /\ call.buf.json
        /\ IsMixed(call.buf.doc) /\ ~UnmarshalFull(call.buf.doc).err)
       => (result.err # "nil" /\ result.retNil)

\* C6: SplitCompact succeeds exactly when its input has exactly two '.',
\* and then returns the three segments between them in order; otherwise it
\* returns an error and no segments.
SplitCompactTwoDots ==
    call.op = "SplitCompact"
    => (/\ (result.err = "nil") <=> (CountByte(call.data, Dot) = 2)
        /\ result.err = "nil"
             => (/\ result.protected = Segment(call.data, 1)
                 /\ result.payload = Segment(call.data, 2)
                 /\ result.signature = Segment(call.data, 3))
        /\ result.err # "nil"
             => (/\ result.protected = <<>>
                 /\ result.payload = <<>>
                 /\ result.signature = <<>>))

\* C7: the JSON serialization SignMulti emits carries the payload, and the
\* protected header and signature of every entry, encoded once with
\* unpadded base64url: the payload member is base64url(payload).
SignMultiEncodesOnce ==
    (call.op = "SignMulti" /\ result.err = "nil")
    => (/\ result.doc.payload = Str(B64UrlEncode(call.payload))
        /\ Len(result.doc.signatures.list) = Len(call.signers)
        /\ \A k \in 1..Len(call.signers) :
              /\ result.doc.signatures.list[k].protected
                   = Str(B64UrlEncode(HeaderJSON(call.signers[k].alg, <<>>)))
              /\ result.doc.signatures.list[k].signature
                   = Str(B64UrlEncode(Tag(call.signers[k].alg,
                                          call.signers[k].key, fed[k]))))

\* C8: CompactSerialize.Serialize of a message with one signature emits
\* three segments joined by '.', the first being base64url of the JSON of
\* the protected header alone: a kid that only the public header has is
\* not in it.
SerializeProtectedAlone ==
    (call.op = "Serialize" /\ Len(call.m.Signatures) = 1)
    => (/\ result.err = "nil"
        /\ CountByte(result.out, Dot) = 2
        /\ Segment(result.out, 1)
             = B64UrlEncode(HeaderMarshal(call.m.Signatures[1].ProtectedHeader)))

\* the alg of the protected header an entry came with
WireAlg(sig) ==
    IF sig.ProtectedHeader.Source = <<>> THEN ""
    ELSE HeaderUnmarshal(DecodeIntoBuf(sig.ProtectedHeader.Source)).alg

\* C9: after a successful Parse, of compact or of JSON input, every
\* signature entry of the message has a non-empty protected-header alg,
\* which is none when the header on the wire carried no alg.
ParsedAlgNeverEmpty ==
    (call.op = "Parse" /\ result.err = "nil")
    => \A k \in 1..Len(result.msg.Signatures) :
          /\ result.msg.Signatures[k].ProtectedHeader.alg # ""
          /\ WireAlg(result.msg.Signatures[k]) = ""
               => result.msg.Signatures[k].ProtectedHeader.alg = "none"

\* b, big-endian, padded on the left with zero bytes to n bytes
LeftPad(b, n) == [k \in 1..(n - Len(b)) |-> 0] \o b

EcdsaPairs == {<<"ES256", "P-256">>, <<"ES384", "P-384">>, <<"ES512", "P-521">>}

\* C10: for ES256 with P-256, ES384 with P-384 and ES512 with P-521,
\* EcdsaSign.Sign with a private key on the curve succeeds and returns R
\* followed by S, each padded on the left with zero bytes to
\* ceil(curveBits / 8) bytes.
EcdsaSignFixedWidth ==
    (/\ call.op = "EcdsaSign.Sign"
     /\ ~call.sign.PrivateKey.nil
     /\ <<call.sign.Algorithm, call.sign.PrivateKey.curve>> \in EcdsaPairs)
    => (/\ result.err = "nil"
        /\ result.sig
             = LeftPad(call.r, (CurveBits(call.sign.PrivateKey.curve) + 7) \div 8)
               \o LeftPad(call.s, (CurveBits(call.sign.PrivateKey.curve) + 7) \div 8)
        /\ Len(result.sig)
             = 2 * ((CurveBits(call.sign.PrivateKey.curve) + 7) \div 8))

\* the key EcdsaSign.Verify verifies with
VerifyKey(sign) == IF sign.PublicKey.nil THEN sign.PrivateKey ELSE sign.PublicKey

\* C11: EcdsaSign.Verify returns the invalid-signature-size error exactly
\* when the signature is not 2 * ceil(curveBits / 8) bytes for the curve of
\* the key (64, 96, 132 bytes for P-256, P-384, P-521); a signature of that
\* length is split into r, its first half, and s, its second half.
EcdsaVerifySize ==
    (/\ call.op = "EcdsaSign.Verify"
     /\ ~VerifyKey(call.sign).nil
     /\ <<call.sign.Algorithm, VerifyKey(call.sign).curve>> \in EcdsaPairs)
    => (/\ (result.err = "ErrInvalidEcdsaSignatureSize")
              <=> (Len(call.signature)
                     # 2 * ((CurveBits(VerifyKey(call.sign).curve) + 7) \div 8))
        /\ Len(call.signature)
              = 2 * ((CurveBits(VerifyKey(call.sign).curve) + 7) \div 8)
           => (/\ result.rv
                    = StripZeros(SubSeq(call.signature, 1,
                                        Len(call.signature) \div 2))
               /\ result.sv
                    = StripZeros(SubSeq(call.signature,
                                        Len(call.signature) \div 2 + 1,
                                        Len(call.signature)))))

\* C12: NewEcdsaSign rejects an algorithm whose digest does not match the
\* curve of the key (ES256 with a P-384 or P-521 key, ...): no signer
\* exists for a mismatched algorithm and curve.
NewEcdsaSignRejectsMismatch ==
    (/\ call.op = "NewEcdsaSign"
     /\ call.alg \in {"ES256", "ES384", "ES512"}
     /\ ~call.key.nil
     /\ <<call.alg, call.key.curve>> \notin EcdsaPairs)
    => (result.err # "nil" /\ ~result.hasSigner)

\* the algorithms of the family of a constructor
Family(op) ==
    CASE op = "NewRsaSign" ->
            {"RS256", "RS384", "RS512", "PS256", "PS384", "PS512"}
      [] op = "NewEcdsaSign" -> {"ES256", "ES384", "ES512"}
      [] op = "NewHmacSign" -> {"HS256", "HS384", "HS512"}

\* C13: NewRsaSign, NewEcdsaSign and NewHmacSign return
\* ErrUnsupportedAlgorithm and no signer for an algorithm outside their own
\* family, unknown names included.
ConstructorsRejectOtherFamilies ==
    (/\ call.op \in {"NewRsaSign", "NewEcdsaSign", "NewHmacSign"}
     /\ call.alg \notin Family(call.op))
    => (result.err = "ErrUnsupportedAlgorithm" /\ ~result.hasSigner)

\* what RsaSign.Sign has to answer for the signer of the call
RsaSignAnswer(sign, res) ==
    IF sign.Algorithm \notin Family("NewRsaSign")
    THEN res.err = "ErrUnsupportedAlgorithm" /\ res.sig = <<>>
    ELSE sign.PrivateKey.nil
         => (res.err = "ErrMissingPrivateKey" /\ res.sig = <<>>)

\* what RsaSign.Verify has to answer for the signer of the call
RsaVerifyAnswer(sign, payload, signature, res) ==
    IF sign.Algorithm \notin Family("NewRsaSign")
    THEN res.err = "ErrUnsupportedAlgorithm"
    ELSE IF sign.PublicKey.nil /\ sign.PrivateKey.nil
    THEN res.err = "ErrMissingPublicKey"
    ELSE sign.PublicKey.nil
         => (/\ res.pubkey = sign.PrivateKey
             /\ res.err = "nil"
                <=> signature = Tag(sign.Algorithm, sign.PrivateKey, payload))

\* C14: RsaSign.Sign and RsaSign.Verify return ErrUnsupportedAlgorithm for
\* an algorithm that is not RS256/384/512 or PS256/384/512, whatever keys
\* are set; otherwise Sign returns ErrMissingPrivateKey without a private
\* key, Verify returns ErrMissingPublicKey with neither key, and Verify
\* with only the private key verifies under that key's public half.
RsaSignErrors ==
    /\ call.op = "RsaSign.Sign" => RsaSignAnswer(call.sign, result)
    /\ call.op = "RsaSign.Verify"
       => RsaVerifyAnswer(call.sign, call.payload, call.signature, result)

\* C14: Verify was called on an RsaSign holding only a private key and
\* accepted a signature.
RsaVerifiedByPrivateOnly ==
    /\ call.op = "RsaSign.Verify"
    /\ call.sign.PublicKey.nil
    /\ ~call.sign.PrivateKey.nil
    /\ call.sign.Algorithm = "PS384"
    /\ result.err = "nil"

\* the increasing sequence of the numbers of S
Ascending(S) ==
    CHOOSE q \in [1..Cardinality(S) -> S] :
        \A i, j \in 1..Cardinality(S) : i < j => q[i] < q[j]

\* the text of the payload of a serialization
PayloadText(buf) ==
    IF buf.json THEN BytesOf(buf.doc.payload)
    ELSE Segment(TrimSpace(buf.bytes), 2)

\* key k of the set is accepted by the acceptor and verifies the message
KeyVerifies(buf, key) ==
    /\ ~key.bad
    /\ Accepted(buf, key.alg, key.key)
    /\ PayloadDecodes(buf)

AcceptedKeys(c) ==
    {k \in 1..Len(c.keys) : KeyAccept(c.keyaccept, c.keys[k])}

Winners(c) == {k \in AcceptedKeys(c) : KeyVerifies(c.buf, c.keys[k])}

\* what VerifyWithJWKSet has to return for call c
KeySetAnswer(c, res) ==
    IF Winners(c) = {}
    THEN /\ res.err = "failed to verify with any of the keys"
         /\ res.retNil
         /\ res.tried = Ascending(AcceptedKeys(c))
    ELSE /\ res.err = "nil"
         /\ ~res.retNil
         /\ res.ret = DecodeIntoBuf(PayloadText(c.buf))
         /\ res.tried = Ascending({k \in AcceptedKeys(c) : k <= Min(Winners(c))})

\* C15: VerifyWithJWKSet calls VerifyWithJWK on the accepted keys in the
\* order of the set, on no rejected key, and on no key after the first one
\* that verifies, whose payload it returns; a key that fails to materialize
\* or to verify does not end the loop; when no accepted key verifies it
\* returns the one error "failed to verify with any of the keys".
KeySetFirstMatch ==
    call.op = "VerifyWithJWKSet" => KeySetAnswer(call, result)

\* the algorithms named by the protected headers of a serialization
ProtectedAlgOf(text) ==
    IF B64UrlValid(text) THEN HeaderUnmarshal(DecodeIntoBuf(text)).alg ELSE ""

ProtectedAlgs(buf) ==
    IF buf.json
    THEN {ProtectedAlgOf(StoredEntries(buf.doc)[k].Protected) :
             k \in 1..Len(StoredEntries(buf.doc))}
    ELSE IF CountByte(TrimSpace(buf.bytes), Dot) = 2
    THEN {ProtectedAlgOf(Segment(TrimSpace(buf.bytes), 1))}
    ELSE {}

\* res is what Verify's answer v becomes when VerifyWithJWK hands it on
HandsOn(res, v) ==
    /\ (res.err = "nil") = (v.err = "nil")
    /\ res.ret = v.ret
    /\ res.retNil = v.retNil

\* C16: VerifyWithJWK verifies with the alg attribute of the JWK when it
\* has one, and with the alg of the protected header of the message when
\* it has none, so that a JWK without alg verifies a message its key
\* signed under the algorithm of the header.
VerifyWithJWKAlg ==
    (call.op = "VerifyWithJWK" /\ ~call.key.bad)
    => IF call.key.alg # ""
       THEN HandsOn(result, Verify(call.buf, call.key.alg, call.key.key))
       ELSE \A h \in ProtectedAlgs(call.buf) :
               ProtectedAlgs(call.buf) = {h}
               => HandsOn(result, Verify(call.buf, h, call.key.key))

\* C17: a message MultiSign.MultiSign or SignMulti returns without error
\* has at least one signature; with zero signers both return an error and
\* no message; and when a signer fails no message, not even a partial one,
\* is returned.
SignedHasSignatures ==
    /\ call.op = "MultiSign"
       => (/\ result.err = "nil" => Len(result.msg.Signatures) >= 1
           /\ Len(call.signers) = 0 => result.err # "nil"
           /\ result.err # "nil" => result.msg = NoMessage)
    /\ call.op = "SignMulti"
       => (/\ result.err = "nil" => Len(result.doc.signatures.list) >= 1
           /\ Len(call.signers) = 0 => result.err # "nil"
           /\ result.err # "nil" => result.doc = EmptyDoc)

\* C18: SplitCompact returns for every way of cutting the input into the
\* chunks of successive Reads what it returns when the whole input arrives
\* in one Read: the three segments between the two '.', or the error of an
\* input that has not exactly two.
SplitCompactAnyChunks ==
    call.op = "SplitCompact"
    => (/\ result = NoFed(SplitCompact(<<call.data>>))
        /\ CountByte(call.data, Dot) = 2
             => (/\ result.err = "nil"
                 /\ result.protected = Segment(call.data, 1)
                 /\ result.payload = Segment(call.data, 2)
                 /\ result.signature = Segment(call.data, 3)))

=============================================================================
